---- MODULE Spec2Model ----
(***************************************************************************)
(* State-machine model of the CHIP-8 interpreter of src/main.rs.           *)
(*                                                                         *)
(* The state is the Interpreter struct plus the position of the driver     *)
(* inside Interpreter::update.  One call of update is three kinds of step: *)
(* UpdateBegin (key ageing and the key-event batch), Exe (one call of      *)
(* exe, IPF of them per update) and UpdateEnd (timer decay, pending-key    *)
(* ageing).  A Rust panic aborts the process: it is recorded in `fault`    *)
(* and no step is enabled afterwards.                                      *)
(***************************************************************************)
EXTENDS Integers, Naturals, Sequences, FiniteSets, TLC

(***************************************************************************)
(* Program constants.                                                      *)
(***************************************************************************)
WIDTH == 64
HEIGHT == 32
OFFSET == 512
IPF == 1000
AMIGA_BEHAVIOUR == FALSE
MODERN_STR_LD_BEHAVIOUR == FALSE
MODERN_SHIFT_BEHAVIOUR == FALSE
VF_RESET == TRUE
MEMORY_SIZE == 4096
KEY_AGE_MAX == 60
DEBOUNCE_FRAMES == 3
TIMER_MODULUS == 60
TIMER_STEP == 59
FONT_STRIDE == 5

(***************************************************************************)
(* Bounds of the model.                                                    *)
(***************************************************************************)
MaxTicks == 2
MaxKeyTicks == 5
MaxWaitTicks == 4
MaxStack == 17
MaxAgeTicks == 62
AgeEventTicks == 2

(***************************************************************************)
(* Machine arithmetic.                                                     *)
(***************************************************************************)
U8 == 256
U16 == 65536

Pow2(i) == <<1, 2, 4, 8, 16, 32, 64, 128, 256>>[i + 1]

Bit(v, i) == (v \div Pow2(i)) % 2

BitAnd(a, b) ==
    LET t(i) == Pow2(i) * (Bit(a, i) * Bit(b, i))
    IN  t(0) + t(1) + t(2) + t(3) + t(4) + t(5) + t(6) + t(7)

BitOr(a, b) ==
    LET t(i) == Pow2(i) * (IF Bit(a, i) + Bit(b, i) > 0 THEN 1 ELSE 0)
    IN  t(0) + t(1) + t(2) + t(3) + t(4) + t(5) + t(6) + t(7)

BitXor(a, b) ==
    LET t(i) == Pow2(i) * ((Bit(a, i) + Bit(b, i)) % 2)
    IN  t(0) + t(1) + t(2) + t(3) + t(4) + t(5) + t(6) + t(7)

Min(a, b) == IF a <= b THEN a ELSE b

Max(a, b) == IF a >= b THEN a ELSE b

(***************************************************************************)
(* Faults: the panics the interpreter can raise.                           *)
(*   StackUnderflow      stack.pop().unwrap() on an empty stack            *)
(*   UnknownOpcode       panic!() of the 0NNN arm, panic!("wrong opcode")  *)
(*   AddressOutOfRange   index out of bounds on self.memory                *)
(*   KeyOutOfRange       index out of bounds on self.keys                  *)
(*   ArithmeticOverflow  integer overflow with overflow checks compiled in *)
(***************************************************************************)
NoFault == "none"

(***************************************************************************)
(* Host keys.  A host key is named by the text it produces; get_key maps   *)
(* the text to a keypad key (<<k>>) or to nothing (<<>>).                  *)
(***************************************************************************)
Pressed == "Pressed"
Released == "Released"

to_text(key) == IF key = "Shift" THEN <<>> ELSE <<key>>

get_key(key) ==
    CASE key = "1" -> <<1>>
      [] key = "2" -> <<2>>
      [] key = "3" -> <<3>>
      [] key = "4" -> <<12>>
      [] key = "q" -> <<4>>
      [] key = "w" -> <<5>>
      [] key = "e" -> <<6>>
      [] key = "r" -> <<13>>
      [] key = "a" -> <<7>>
      [] key = "s" -> <<8>>
      [] key = "d" -> <<9>>
      [] key = "f" -> <<14>>
      [] key = "z" -> <<10>>
      [] key = "x" -> <<0>>
      [] key = "c" -> <<11>>
      [] key = "v" -> <<15>>
      [] OTHER -> <<>>

\* key.to_text().and_then(get_key)
KeypadKeyOf(key) == IF to_text(key) = <<>> THEN <<>> ELSE get_key(to_text(key)[1])

Ev(key, state) == [key |-> key, state |-> state]

(***************************************************************************)
(* KeyState.                                                               *)
(***************************************************************************)
KeyState_new == [pressed_frames_ago |-> KEY_AGE_MAX, released_frames_ago |-> KEY_AGE_MAX]

press(ks) == [ks EXCEPT !.pressed_frames_ago = 0]

release(ks) == [ks EXCEPT !.released_frames_ago = 0]

\* update_pressed without the clamp
update_pressed_unclamped(ks) ==
    [ks EXCEPT !.pressed_frames_ago = ks.pressed_frames_ago + 1]

update_pressed(ks) ==
    [ks EXCEPT !.pressed_frames_ago = Min(ks.pressed_frames_ago + 1, KEY_AGE_MAX)]

update_released(ks) ==
    [ks EXCEPT !.released_frames_ago = Min(ks.released_frames_ago + 1, KEY_AGE_MAX)]

\* is_pressed with `<` in place of `<=`
is_pressed_strict(ks) == ks.pressed_frames_ago < DEBOUNCE_FRAMES

is_pressed(ks) == ks.pressed_frames_ago <= DEBOUNCE_FRAMES

is_released(ks) == ks.released_frames_ago <= DEBOUNCE_FRAMES

(***************************************************************************)
(* The font table and program images.                                      *)
(***************************************************************************)
Font ==
    << 240, 144, 144, 144, 240,
       32, 96, 32, 32, 112,
       240, 16, 240, 128, 240,
       240, 16, 240, 16, 240,
       144, 144, 240, 16, 16,
       240, 128, 240, 16, 240,
       240, 128, 240, 144, 240,
       240, 16, 32, 64, 64,
       240, 144, 240, 144, 240,
       240, 144, 240, 16, 240,
       240, 144, 240, 144, 144,
       224, 144, 224, 144, 224,
       240, 128, 128, 128, 240,
       224, 144, 144, 144, 224,
       240, 128, 240, 128, 240,
       240, 128, 240, 128, 128 >>

\* The bytes of a program given as 16-bit big-endian words.
RomOfWords(ws) ==
    [i \in 1..(2 * Len(ws)) |->
        IF i % 2 = 1 THEN ws[(i + 1) \div 2] \div 256 ELSE ws[i \div 2] % 256]

\* Interpreter::load: memory after the font and the program bytes are copied
\* into the zeroed memory.  Cells that were never written hold 0.
load(bytes) ==
    [a \in (0..(Len(Font) - 1)) \cup (OFFSET..(OFFSET + Len(bytes) - 1)) |->
        IF a >= OFFSET /\ a < OFFSET + Len(bytes) THEN bytes[a - OFFSET + 1]
        ELSE Font[a + 1]]

VARIABLES
    memory,                   \* written cells of self.memory (others are 0)
    screen,                   \* the set of <<row, column>> cells that are on
    program_counter,
    index,
    stack,
    delay_timer,
    sound_timer,
    registers,
    halt,
    keys,
    last_pressed_frames_ago,  \* <<>> for None, <<key, frames_ago>> for Some
    fault,                    \* NoFault, or the panic that aborted the process
    phase,                    \* "idle" between updates, "exe" inside one
    n_exe,                    \* iterations of `for _ in 0..IPF` done so far
    host_keys,                \* the `keys` slice passed to the running update
    history,                  \* the batches passed to update so far
    calls                     \* call sites of the calls not yet returned from

vars == <<memory, screen, program_counter, index, stack, delay_timer, sound_timer,
          registers, halt, keys, last_pressed_frames_ago, fault, phase, n_exe,
          host_keys, history, calls>>

\* self.memory[a] for an address inside the vector
Mem(a) == IF a \in DOMAIN memory THEN memory[a] ELSE 0

(***************************************************************************)
(* Interpreter::new followed by Interpreter::load(bytes), as in main.      *)
(***************************************************************************)
InitWith(bytes) ==
    /\ memory = load(bytes)
    /\ screen = {}
    /\ program_counter = OFFSET
    /\ index = 0
    /\ stack = <<>>
    /\ delay_timer = 0
    /\ sound_timer = 0
    /\ registers = [r \in 0..15 |-> 0]
    /\ halt = FALSE
    /\ keys = [k \in 0..15 |-> KeyState_new]
    /\ last_pressed_frames_ago = <<>>
    /\ fault = NoFault
    /\ phase = "idle"
    /\ n_exe = 0
    /\ host_keys = <<>>
    /\ history = <<>>
    /\ calls = <<>>

(***************************************************************************)
(* Interpreter::update, first part: ageing of the keys and the key events. *)
(***************************************************************************)
AgeKeys(ks) == [k \in 0..15 |-> update_released(update_pressed(ks[k]))]

RECURSIVE ApplyEvents(_, _, _)
\* the `for (key, state) in keys` loop from event i on, on the key states
ApplyEvents(ks, batch, i) ==
    IF i > Len(batch) THEN ks
    ELSE LET key == KeypadKeyOf(batch[i].key)
         IN  IF key = <<>> THEN ApplyEvents(ks, batch, i + 1)
             ELSE ApplyEvents(
                     [ks EXCEPT ![key[1]] =
                         IF batch[i].state = Pressed THEN press(@) ELSE release(@)],
                     batch, i + 1)

RECURSIVE LastOf_first(_, _, _)
\* the loop keeping the first pressed key of the batch
LastOf_first(last, batch, i) ==
    IF i > Len(batch) THEN last
    ELSE LET key == KeypadKeyOf(batch[i].key)
         IN  IF key # <<>> /\ batch[i].state = Pressed /\ last = <<>>
             THEN LastOf_first(key, batch, i + 1)
             ELSE LastOf_first(last, batch, i + 1)

RECURSIVE LastOf(_, _, _)
\* the same loop, on the local `last` (<<>> for None, <<key>> for Some)
LastOf(last, batch, i) ==
    IF i > Len(batch) THEN last
    ELSE LET key == KeypadKeyOf(batch[i].key)
         IN  IF key # <<>> /\ batch[i].state = Pressed
             THEN LastOf(key, batch, i + 1)
             ELSE LastOf(last, batch, i + 1)

\* the events applied before the ageing
UpdateKeys_events_first(ks, batch) == AgeKeys(ApplyEvents(ks, batch, 1))

UpdateKeys(ks, batch) == ApplyEvents(AgeKeys(ks), batch, 1)

UpdatePending(pending, batch) ==
    LET last == LastOf(<<>>, batch, 1)
    IN  IF last # <<>> THEN <<last[1], 0>> ELSE pending

UpdateBegin(batch, maxTicks) ==
    /\ fault = NoFault
    /\ phase = "idle"
    /\ Len(history) < maxTicks
    /\ keys' = UpdateKeys(keys, batch)
    /\ last_pressed_frames_ago' = UpdatePending(last_pressed_frames_ago, batch)
    /\ phase' = "exe"
    /\ n_exe' = 0
    /\ host_keys' = batch
    /\ history' = Append(history, batch)
    /\ UNCHANGED <<memory, screen, program_counter, index, stack, delay_timer,
                   sound_timer, registers, halt, fault, calls>>

(***************************************************************************)
(* Interpreter::update, last part: timer decay and pending-key ageing.     *)
(***************************************************************************)
\* a decrement that stops at 0
Decay_saturating(timer) == IF timer = 0 THEN 0 ELSE timer - 1

\* (timer + 59) % 60 on u8, when the addition does not overflow
Decay(timer) == (timer + TIMER_STEP) % TIMER_MODULUS

\* the same when the addition overflows and the build wraps
DecayWrapped(timer) == ((timer + TIMER_STEP) % U8) % TIMER_MODULUS

DecayOverflows(timer) == timer + TIMER_STEP >= U8

AgePending(pending) ==
    IF pending = <<>> THEN pending
    ELSE <<pending[1], Min(pending[2] + 1, KEY_AGE_MAX)>>

\* the three statements after the instruction batch; `wraps` is whether the
\* build wraps on overflow (otherwise it panics)
DecayTimers(wraps) ==
    IF DecayOverflows(delay_timer) /\ ~wraps
    THEN /\ fault' = "ArithmeticOverflow"
         /\ UNCHANGED <<delay_timer, sound_timer, last_pressed_frames_ago>>
    ELSE /\ delay_timer' =
                IF DecayOverflows(delay_timer) THEN DecayWrapped(delay_timer)
                ELSE Decay(delay_timer)
         /\ IF DecayOverflows(sound_timer) /\ ~wraps
            THEN /\ fault' = "ArithmeticOverflow"
                 /\ UNCHANGED <<sound_timer, last_pressed_frames_ago>>
            ELSE /\ sound_timer' =
                        IF DecayOverflows(sound_timer) THEN DecayWrapped(sound_timer)
                        ELSE Decay(sound_timer)
                 /\ last_pressed_frames_ago' = AgePending(last_pressed_frames_ago)
                 /\ fault' = fault

UpdateEnd ==
    /\ fault = NoFault
    /\ phase = "exe"
    /\ n_exe = IPF
    /\ \E wraps \in IF DecayOverflows(delay_timer) \/ DecayOverflows(sound_timer)
                    THEN BOOLEAN ELSE {TRUE} :
          DecayTimers(wraps)
    /\ phase' = "idle"
    /\ host_keys' = <<>>
    /\ UNCHANGED <<memory, screen, program_counter, index, stack, registers, halt,
                   keys, n_exe, history, calls>>

(***************************************************************************)
(* Interpreter::exe.  Every arm below is one arm of the match; it sets the *)
(* variables exe can write.  next_pc is the program counter after the      *)
(* fetch (`self.program_counter += 2`).                                    *)
(***************************************************************************)
next_pc == program_counter + 2

VX(x) == registers[x]

\* a panic: the process aborts with the program counter at pcv
Panic(kind, pcv) ==
    /\ fault' = kind
    /\ program_counter' = pcv
    /\ UNCHANGED <<memory, screen, index, stack, delay_timer, sound_timer,
                   registers, calls>>

\* an arm that only moves the program counter
SetPc(pcv) ==
    /\ program_counter' = pcv
    /\ UNCHANGED <<memory, screen, index, stack, delay_timer, sound_timer,
                   registers, fault, calls>>

\* an arm that only writes registers
SetRegs(regs) ==
    /\ registers' = regs
    /\ program_counter' = next_pc
    /\ UNCHANGED <<memory, screen, index, stack, delay_timer, sound_timer,
                   fault, calls>>

\* an arm that only writes the index register
SetIndex(iv) ==
    /\ index' = iv
    /\ program_counter' = next_pc
    /\ UNCHANGED <<memory, screen, stack, delay_timer, sound_timer, registers,
                   fault, calls>>

\* 00E0
OpCls ==
    /\ screen' = {}
    /\ program_counter' = next_pc
    /\ UNCHANGED <<memory, index, stack, delay_timer, sound_timer, registers,
                   fault, calls>>

\* 00EE with `unwrap_or(0)` in place of `unwrap()`
OpRet_default ==
    IF stack = <<>>
    THEN SetPc(0)
    ELSE /\ program_counter' = stack[Len(stack)]
         /\ stack' = SubSeq(stack, 1, Len(stack) - 1)
         /\ calls' = SubSeq(calls, 1, Len(calls) - 1)
         /\ UNCHANGED <<memory, screen, index, delay_timer, sound_timer,
                        registers, fault>>

\* 00EE
OpRet ==
    IF stack = <<>>
    THEN Panic("StackUnderflow", next_pc)
    ELSE /\ program_counter' = stack[Len(stack)]
         /\ stack' = SubSeq(stack, 1, Len(stack) - 1)
         /\ calls' = SubSeq(calls, 1, Len(calls) - 1)
         /\ UNCHANGED <<memory, screen, index, delay_timer, sound_timer,
                        registers, fault>>

\* 0NNN
OpSys == Panic("UnknownOpcode", next_pc)

\* 1NNN
OpJump(nnn) == SetPc(nnn)

\* 2NNN pushing the address of the call itself
OpCall_site(nnn) ==
    /\ Len(stack) < MaxStack
    /\ stack' = Append(stack, program_counter % U16)
    /\ program_counter' = nnn
    /\ calls' = Append(calls, [site |-> program_counter, before |-> stack])
    /\ UNCHANGED <<memory, screen, index, delay_timer, sound_timer, registers,
                   fault>>

\* 2NNN
OpCall(nnn) ==
    /\ Len(stack) < MaxStack
    /\ stack' = Append(stack, next_pc % U16)
    /\ program_counter' = nnn
    /\ calls' = Append(calls, [site |-> program_counter, before |-> stack])
    /\ UNCHANGED <<memory, screen, index, delay_timer, sound_timer, registers,
                   fault>>

\* 3XNN
OpSkipEqImm(x, nn) == SetPc(IF VX(x) = nn THEN next_pc + 2 ELSE next_pc)

\* 4XNN
OpSkipNeImm(x, nn) == SetPc(IF VX(x) # nn THEN next_pc + 2 ELSE next_pc)

\* 5XY_
OpSkipEq(x, y) == SetPc(IF VX(x) = VX(y) THEN next_pc + 2 ELSE next_pc)

\* 6XNN
OpLoadImm(x, nn) == SetRegs([registers EXCEPT ![x] = nn])

\* 7XNN storing NN instead of adding it
OpAddImm_assign(x, nn) == SetRegs([registers EXCEPT ![x] = nn])

\* 7XNN
OpAddImm(x, nn) ==
    IF VX(x) + nn >= U8
    THEN \/ Panic("ArithmeticOverflow", next_pc)
         \/ SetRegs([registers EXCEPT ![x] = (VX(x) + nn) % U8])
    ELSE SetRegs([registers EXCEPT ![x] = VX(x) + nn])

\* 8XY0
OpMove(x, y) == SetRegs([registers EXCEPT ![x] = VX(y)])

\* the VF_RESET quirk of 8XY1, 8XY2, 8XY3
ResetVF(regs) == IF VF_RESET THEN [regs EXCEPT ![15] = 0] ELSE regs

\* 8XY1
OpOr(x, y) == SetRegs(ResetVF([registers EXCEPT ![x] = BitOr(VX(x), VX(y))]))

\* 8XY2
OpAnd(x, y) == SetRegs(ResetVF([registers EXCEPT ![x] = BitAnd(VX(x), VX(y))]))

\* 8XY3
OpXor(x, y) == SetRegs(ResetVF([registers EXCEPT ![x] = BitXor(VX(x), VX(y))]))

\* 8XY4 writing the flag before the sum
OpAdd_flag_first(x, y) ==
    LET sum == VX(x) + VX(y)
    IN  SetRegs([[registers EXCEPT ![15] = IF sum >= U8 THEN 1 ELSE 0]
                            EXCEPT ![x] = sum % U8])

\* 8XY4
OpAdd(x, y) ==
    LET sum == VX(x) + VX(y)
    IN  SetRegs([[registers EXCEPT ![x] = sum % U8]
                            EXCEPT ![15] = IF sum >= U8 THEN 1 ELSE 0])

\* 8XY5 with a borrow flagged on equal operands
OpSub_borrow_on_equal(x, y) ==
    LET diff == VX(x) - VX(y)
    IN  SetRegs([[registers EXCEPT ![x] = diff % U8]
                            EXCEPT ![15] = IF diff <= 0 THEN 0 ELSE 1])

\* 8XY5
OpSub(x, y) ==
    LET diff == VX(x) - VX(y)
    IN  SetRegs([[registers EXCEPT ![x] = diff % U8]
                            EXCEPT ![15] = IF diff < 0 THEN 0 ELSE 1])

\* 8XY6 shifting VX whatever the quirk
OpShr_operand_x(x, y) ==
    LET src == VX(x)
    IN  SetRegs([[registers EXCEPT ![x] = src \div 2]
                            EXCEPT ![15] = BitAnd(src, 1)])

\* 8XY6
OpShr(x, y) ==
    LET src == IF MODERN_SHIFT_BEHAVIOUR THEN VX(x) ELSE VX(y)
    IN  SetRegs([[registers EXCEPT ![x] = src \div 2]
                            EXCEPT ![15] = BitAnd(src, 1)])

\* 8XY7
OpSubN(x, y) ==
    LET diff == VX(y) - VX(x)
    IN  SetRegs([[registers EXCEPT ![x] = diff % U8]
                            EXCEPT ![15] = IF diff < 0 THEN 0 ELSE 1])

\* 8XYE
OpShl(x, y) ==
    LET src == IF MODERN_SHIFT_BEHAVIOUR THEN VX(x) ELSE VX(y)
    IN  SetRegs([[registers EXCEPT ![x] = (src * 2) % U8]
                            EXCEPT ![15] = BitAnd(src, 128) \div 128])

\* 9XY_
OpSkipNe(x, y) == SetPc(IF VX(x) # VX(y) THEN next_pc + 2 ELSE next_pc)

\* ANNN
OpSetIndex(nnn) == SetIndex(nnn)

\* BNNN
OpJumpV0(nnn) == SetPc(nnn + VX(0))

\* CXNN
OpRand(x, nn) ==
    \E r \in {BitAnd(b, nn) : b \in 0..255} :
        SetRegs([registers EXCEPT ![x] = r])

\* no bounds check on self.memory
InRange_unchecked(base, count) == count

\* the cells of self.memory[base .. base + count - 1] that exist
InRange(base, count) == Max(0, Min(count, MEMORY_SIZE - base))

\* self.memory after vals[1..count] are stored at base, base + 1, ...
Store(base, vals, count) ==
    [a \in DOMAIN memory \cup (base..(base + count - 1)) |->
        IF a >= base /\ a < base + count THEN vals[a - base + 1] ELSE memory[a]]

\* DXYN setting the cells of the sprite instead of toggling them
OpDraw_or(x, y, n) ==
    LET regs0 == [registers EXCEPT ![15] = 0]
        ox == regs0[x] % WIDTH
        oy == regs0[y] % HEIGHT
        clipped_n == Min(oy + n, HEIGHT) - oy
        rows == InRange(index, clipped_n)
        sprite == {c \in (oy..(oy + rows - 1)) \X (ox..(Min(ox + 8, WIDTH) - 1)) :
                      Bit(Mem(index + (c[1] - oy)), 7 - (c[2] - ox)) = 1}
    IN  /\ screen' = screen \cup sprite
        /\ registers' = IF sprite \cap screen # {} THEN [regs0 EXCEPT ![15] = 1]
                        ELSE regs0
        /\ fault' = IF rows < clipped_n THEN "AddressOutOfRange" ELSE fault
        /\ program_counter' = next_pc
        /\ UNCHANGED <<memory, index, stack, delay_timer, sound_timer, calls>>

\* DXYN with the row origin taken modulo WIDTH: an origin below the display
\* clips every row
OpDraw_row_mod_width(x, y, n) ==
    LET regs0 == [registers EXCEPT ![15] = 0]
        ox == regs0[x] % WIDTH
        oy == regs0[y] % WIDTH
        clipped_n == Max(0, Min(oy + n, HEIGHT) - oy)
        rows == InRange(index, clipped_n)
        sprite == {c \in (oy..(oy + rows - 1)) \X (ox..(Min(ox + 8, WIDTH) - 1)) :
                      Bit(Mem(index + (c[1] - oy)), 7 - (c[2] - ox)) = 1}
    IN  /\ screen' = (screen \ sprite) \cup (sprite \ screen)
        /\ registers' = IF sprite \cap screen # {} THEN [regs0 EXCEPT ![15] = 1]
                        ELSE regs0
        /\ fault' = IF rows < clipped_n THEN "AddressOutOfRange" ELSE fault
        /\ program_counter' = next_pc
        /\ UNCHANGED <<memory, index, stack, delay_timer, sound_timer, calls>>

\* DXYN wrapping the columns past the right edge round to column 0
OpDraw_wrap(x, y, n) ==
    LET regs0 == [registers EXCEPT ![15] = 0]
        ox == regs0[x] % WIDTH
        oy == regs0[y] % HEIGHT
        clipped_n == Min(oy + n, HEIGHT) - oy
        rows == InRange(index, clipped_n)
        sprite == {<<oy + i, (ox + j) % WIDTH>> : <<i, j>> \in
                      {b \in (0..(rows - 1)) \X (0..7) :
                          Bit(Mem(index + b[1]), 7 - b[2]) = 1}}
    IN  /\ screen' = (screen \ sprite) \cup (sprite \ screen)
        /\ registers' = IF sprite \cap screen # {} THEN [regs0 EXCEPT ![15] = 1]
                        ELSE regs0
        /\ fault' = IF rows < clipped_n THEN "AddressOutOfRange" ELSE fault
        /\ program_counter' = next_pc
        /\ UNCHANGED <<memory, index, stack, delay_timer, sound_timer, calls>>

\* DXYN
OpDraw(x, y, n) ==
    LET regs0 == [registers EXCEPT ![15] = 0]
        ox == regs0[x] % WIDTH
        oy == regs0[y] % HEIGHT
        clipped_n == Min(oy + n, HEIGHT) - oy
        rows == InRange(index, clipped_n)
        sprite == {c \in (oy..(oy + rows - 1)) \X (ox..(Min(ox + 8, WIDTH) - 1)) :
                      Bit(Mem(index + (c[1] - oy)), 7 - (c[2] - ox)) = 1}
    IN  /\ screen' = (screen \ sprite) \cup (sprite \ screen)
        /\ registers' = IF sprite \cap screen # {} THEN [regs0 EXCEPT ![15] = 1]
                        ELSE regs0
        /\ fault' = IF rows < clipped_n THEN "AddressOutOfRange" ELSE fault
        /\ program_counter' = next_pc
        /\ UNCHANGED <<memory, index, stack, delay_timer, sound_timer, calls>>

\* Interpreter::is_key_pressed, for a key inside self.keys
is_key_pressed(key) == is_pressed(keys[key])

\* EX9E indexing the keypad by the low four bits of VX
OpSkipKey_masked(x) ==
    SetPc(IF is_key_pressed(VX(x) % 16) THEN next_pc + 2 ELSE next_pc)

\* EX9E
OpSkipKey(x) ==
    IF VX(x) >= 16 THEN Panic("KeyOutOfRange", next_pc)
    ELSE SetPc(IF is_key_pressed(VX(x)) THEN next_pc + 2 ELSE next_pc)

\* EXA1
OpSkipNoKey(x) ==
    IF VX(x) >= 16 THEN Panic("KeyOutOfRange", next_pc)
    ELSE SetPc(IF ~is_key_pressed(VX(x)) THEN next_pc + 2 ELSE next_pc)

\* FX07
OpGetDelay(x) == SetRegs([registers EXCEPT ![x] = delay_timer])

\* FX0A completing on any pending record, whatever its age
OpWaitKey_any_age(x) ==
    IF last_pressed_frames_ago # <<>>
    THEN SetRegs([registers EXCEPT ![x] = last_pressed_frames_ago[1]])
    ELSE SetPc(next_pc - 2)

\* FX0A
OpWaitKey(x) ==
    IF last_pressed_frames_ago # <<>> /\ last_pressed_frames_ago[2] = 0
    THEN SetRegs([registers EXCEPT ![x] = last_pressed_frames_ago[1]])
    ELSE SetPc(next_pc - 2)

\* FX15
OpSetDelay(x) ==
    /\ delay_timer' = VX(x)
    /\ program_counter' = next_pc
    /\ UNCHANGED <<memory, screen, index, stack, sound_timer, registers, fault,
                   calls>>

\* FX18
OpSetSound(x) ==
    /\ sound_timer' = VX(x)
    /\ program_counter' = next_pc
    /\ UNCHANGED <<memory, screen, index, stack, delay_timer, registers, fault,
                   calls>>

\* FX1E
OpAddIndex(x) ==
    LET sum == index + VX(x)
        flag == IF index <= 4095 /\ sum % U16 > 4095 THEN 1 ELSE 0
        regs == IF AMIGA_BEHAVIOUR THEN [registers EXCEPT ![15] = flag]
                ELSE registers
    IN  IF sum >= U16
        THEN \/ Panic("ArithmeticOverflow", next_pc)
             \/ /\ index' = sum % U16
                /\ registers' = regs
                /\ program_counter' = next_pc
                /\ UNCHANGED <<memory, screen, stack, delay_timer, sound_timer,
                               fault, calls>>
        ELSE /\ index' = sum
             /\ registers' = regs
             /\ program_counter' = next_pc
             /\ UNCHANGED <<memory, screen, stack, delay_timer, sound_timer,
                            fault, calls>>

\* FX29
OpFont(x) == SetIndex(VX(x) * FONT_STRIDE)

\* FX33
OpBcd(x) ==
    LET digits == <<VX(x) \div 100, (VX(x) \div 10) % 10, VX(x) % 10>>
        done == InRange(index, 3)
    IN  /\ memory' = Store(index, digits, done)
        /\ fault' = IF done < 3 THEN "AddressOutOfRange" ELSE fault
        /\ program_counter' = next_pc
        /\ UNCHANGED <<screen, index, stack, delay_timer, sound_timer, registers,
                       calls>>

\* FX55 leaving I at its old value
OpStoreRegs_index_kept(x) ==
    LET vals == [i \in 1..(x + 1) |-> registers[i - 1]]
        done == InRange(index, x + 1)
    IN  /\ memory' = Store(index, vals, done)
        /\ index' = index
        /\ fault' = IF done < x + 1 THEN "AddressOutOfRange" ELSE fault
        /\ program_counter' = next_pc
        /\ UNCHANGED <<screen, stack, delay_timer, sound_timer, registers, calls>>

\* FX55
OpStoreRegs(x) ==
    LET vals == [i \in 1..(x + 1) |-> registers[i - 1]]
        done == InRange(index, x + 1)
    IN  /\ memory' = Store(index, vals, done)
        /\ index' = IF MODERN_STR_LD_BEHAVIOUR THEN index ELSE index + done
        /\ fault' = IF done < x + 1 THEN "AddressOutOfRange" ELSE fault
        /\ program_counter' = next_pc
        /\ UNCHANGED <<screen, stack, delay_timer, sound_timer, registers, calls>>

\* FX65
OpLoadRegs(x) ==
    LET done == InRange(index, x + 1)
    IN  /\ registers' = [r \in 0..15 |->
                            IF r < done THEN Mem(index + r) ELSE registers[r]]
        /\ index' = IF MODERN_STR_LD_BEHAVIOUR THEN index ELSE index + done
        /\ fault' = IF done < x + 1 THEN "AddressOutOfRange" ELSE fault
        /\ program_counter' = next_pc
        /\ UNCHANGED <<memory, screen, stack, delay_timer, sound_timer, calls>>

\* the `_` pattern with an empty arm
OpWrong_ignore == SetPc(next_pc)

\* the arm of the `_` pattern
OpWrong == Panic("UnknownOpcode", next_pc)

(***************************************************************************)
(* Fetch and decode.                                                       *)
(***************************************************************************)
\* Interpreter::read_opcode panics unless both bytes are inside the memory
FetchInRange(p) == p + 1 < MEMORY_SIZE

read_opcode(p) == Mem(p) * 256 + Mem(p + 1)

NibC(opcode) == opcode \div 4096
NibX(opcode) == (opcode \div 256) % 16
NibY(opcode) == (opcode \div 16) % 16
NibN(opcode) == opcode % 16
FieldNN(opcode) == opcode % 256
FieldNNN(opcode) == opcode % 4096

\* the match on (c, x, y, n)
Dispatch(opcode) ==
    LET c == NibC(opcode)
        x == NibX(opcode)
        y == NibY(opcode)
        n == NibN(opcode)
        nn == FieldNN(opcode)
        nnn == FieldNNN(opcode)
    IN  CASE c = 0 /\ x = 0 /\ y = 14 /\ n = 0 -> OpCls
          [] c = 0 /\ x = 0 /\ y = 14 /\ n = 14 -> OpRet
          [] c = 0 /\ ~(x = 0 /\ y = 14 /\ n \in {0, 14}) -> OpSys
          [] c = 1 -> OpJump(nnn)
          [] c = 2 -> OpCall(nnn)
          [] c = 3 -> OpSkipEqImm(x, nn)
          [] c = 4 -> OpSkipNeImm(x, nn)
          [] c = 5 -> OpSkipEq(x, y)
          [] c = 6 -> OpLoadImm(x, nn)
          [] c = 7 -> OpAddImm(x, nn)
          [] c = 8 /\ n = 0 -> OpMove(x, y)
          [] c = 8 /\ n = 1 -> OpOr(x, y)
          [] c = 8 /\ n = 2 -> OpAnd(x, y)
          [] c = 8 /\ n = 3 -> OpXor(x, y)
          [] c = 8 /\ n = 4 -> OpAdd(x, y)
          [] c = 8 /\ n = 5 -> OpSub(x, y)
          [] c = 8 /\ n = 6 -> OpShr(x, y)
          [] c = 8 /\ n = 7 -> OpSubN(x, y)
          [] c = 8 /\ n = 14 -> OpShl(x, y)
          [] c = 9 -> OpSkipNe(x, y)
          [] c = 10 -> OpSetIndex(nnn)
          [] c = 11 -> OpJumpV0(nnn)
          [] c = 12 -> OpRand(x, nn)
          [] c = 13 -> OpDraw(x, y, n)
          [] c = 14 /\ y = 9 /\ n = 14 -> OpSkipKey(x)
          [] c = 14 /\ y = 10 /\ n = 1 -> OpSkipNoKey(x)
          [] c = 15 /\ y = 0 /\ n = 7 -> OpGetDelay(x)
          [] c = 15 /\ y = 0 /\ n = 10 -> OpWaitKey(x)
          [] c = 15 /\ y = 1 /\ n = 5 -> OpSetDelay(x)
          [] c = 15 /\ y = 1 /\ n = 8 -> OpSetSound(x)
          [] c = 15 /\ y = 1 /\ n = 14 -> OpAddIndex(x)
          [] c = 15 /\ y = 2 /\ n = 9 -> OpFont(x)
          [] c = 15 /\ y = 3 /\ n = 3 -> OpBcd(x)
          [] c = 15 /\ y = 5 /\ n = 5 -> OpStoreRegs(x)
          [] c = 15 /\ y = 6 /\ n = 5 -> OpLoadRegs(x)
          [] OTHER -> OpWrong

\* one iteration of `for _ in 0..IPF { self.exe(); }`
Exe ==
    /\ fault = NoFault
    /\ phase = "exe"
    /\ n_exe < IPF
    /\ n_exe' = n_exe + 1
    /\ IF halt
       THEN UNCHANGED <<memory, screen, program_counter, index, stack, delay_timer,
                        sound_timer, registers, fault, calls>>
       ELSE IF ~FetchInRange(program_counter)
            THEN Panic("AddressOutOfRange", program_counter)
            ELSE Dispatch(read_opcode(program_counter))
    /\ UNCHANGED <<halt, keys, last_pressed_frames_ago, phase, host_keys, history>>

(***************************************************************************)
(* Programs and the default specification: a program from Roms is loaded,  *)
(* the host supplies no key events.                                        *)
(***************************************************************************)
\* 6064 F015 60C8 F018 1208: set the timers to 100 and 200 and loop
RomTimers == RomOfWords(<<24676, 61461, 24776, 61464, 4616>>)

\* 2200: a subroutine that calls itself
RomCallSelf == RomOfWords(<<8704>>)

\* 6001 00EE: a return with nothing on the stack
RomRetEmpty == RomOfWords(<<24577, 238>>)

\* 2206 2206 1204 | 220A 00EE | 00EE: two calls of a subroutine that calls
\* another one
RomNested == RomOfWords(<<8710, 8710, 4612, 8714, 238, 238>>)

\* 1FFF: a jump to the last byte of the memory
RomJumpLast == RomOfWords(<<8191>>)

\* 60FF BFFF: a jump to 0xFFF + V0
RomJumpV0 == RomOfWords(<<24831, 49151>>)

\* 1FFE at 0x200 and 6001 at 0xFFE: the program runs off the end of memory
RomRunOff ==
    [i \in 1..(MEMORY_SIZE - OFFSET) |->
        CASE i = 1 -> 31
          [] i = 2 -> 254
          [] i = MEMORY_SIZE - OFFSET - 1 -> 96
          [] i = MEMORY_SIZE - OFFSET -> 1
          [] OTHER -> 0]

\* 6007 6108 6209 AFFE F255: a register dump that crosses the end of memory
RomStoreEnd == RomOfWords(<<24583, 24840, 25097, 45054, 62037>>)

\* 6007 6108 6209 AFFD F255 AFFD F265 AFFE F265: a dump and a load of the last
\* three cells, then a load that crosses the end
RomStoreLast == RomOfWords(<<24583, 24840, 25097, 45053, 62037, 45053, 62053,
                             45054, 62053>>)

\* 60FE AFFD F033 AFFE F033: a BCD store into the last cells, then across
RomBcdEnd == RomOfWords(<<24830, 45053, 61491, 45054, 61491>>)

\* AFFF D005: a sprite whose second row lies past the end of memory
RomDrawEnd == RomOfWords(<<45055, 53253>>)

\* AFFF 611F D015 1206: the same sprite at row 31: the rows past the bottom
\* edge are clipped and never read
RomDrawClipped == RomOfWords(<<45055, 24863, 53269, 4614>>)

\* AFFF 60FF F01E F055: I is moved to 0x10FE, then used
RomIndexPast == RomOfWords(<<45055, 24831, 61470, 61525>>)

Roms == {RomTimers, RomCallSelf, RomRetEmpty, RomNested, RomJumpLast, RomJumpV0,
         RomRunOff, RomStoreEnd, RomStoreLast, RomBcdEnd, RomDrawEnd,
         RomDrawClipped, RomIndexPast}

Init == \E bytes \in Roms : InitWith(bytes)

Next ==
    \/ UpdateBegin(<<>>, MaxTicks)
    \/ Exe
    \/ UpdateEnd

Spec == Init /\ [][Next]_vars

(***************************************************************************)
(* The decoder specification: the program is any single 16-bit word.       *)
(***************************************************************************)
InitDecode == \E w \in 0..(U16 - 1) : InitWith(RomOfWords(<<w>>))

SpecDecode == InitDecode /\ [][Next]_vars

(***************************************************************************)
(* The keypad specification: a program that sets the delay timer to 5 and  *)
(* then reads it and tests key 1 in a loop; every update receives one of   *)
(* three batches of host key events.                                       *)
(***************************************************************************)
\* 6005 F015 6001 | F307 E09E 120E 6101 E0A1 6201 1206
RomKeypad == RomOfWords(<<24581, 61461, 24577, 62215, 57502, 4622, 24833,
                          57505, 25089, 4614>>)

KeypadBatches ==
    { <<>>,
      <<Ev("1", Pressed)>>,
      <<Ev("1", Released), Ev("2", Pressed), Ev("Shift", Pressed)>> }

InitKeypad == InitWith(RomKeypad)

NextKeypad ==
    \/ \E batch \in KeypadBatches : UpdateBegin(batch, MaxKeyTicks)
    \/ Exe
    \/ UpdateEnd

SpecKeypad == InitKeypad /\ [][NextKeypad]_vars

(***************************************************************************)
(* The key-wait specification: two key waits in a loop.                    *)
(***************************************************************************)
\* F30A F50A 1200
RomKeyWait == RomOfWords(<<62218, 62730, 4608>>)

WaitBatches ==
    { <<>>,
      <<Ev("1", Released), Ev("p", Pressed)>>,
      <<Ev("1", Pressed), Ev("q", Pressed), Ev("q", Released), Ev("1", Released)>> }

InitKeyWait == InitWith(RomKeyWait)

NextKeyWait ==
    \/ \E batch \in WaitBatches : UpdateBegin(batch, MaxWaitTicks)
    \/ Exe
    \/ UpdateEnd

SpecKeyWait == InitKeyWait /\ [][NextKeyWait]_vars

(***************************************************************************)
(* Step predicates used by the properties.                                 *)
(***************************************************************************)
\* the step is one call of exe
ExeStep == phase = "exe" /\ n_exe' = n_exe + 1

\* the step is the part of update that follows the instruction batch
DecayStep == phase = "exe" /\ phase' = "idle"

\* the step is the part of update that precedes the instruction batch
KeysStep == phase = "idle" /\ phase' = "exe"

\* the step is a call of exe that fetches a word
Fetches == ExeStep /\ ~halt /\ FetchInRange(program_counter)

CurOp == read_opcode(program_counter)

\* the word fetched by the exe call that ended in the current state (a fault
\* leaves the program counter behind the word)
LastOp == read_opcode(program_counter - 2)

(***************************************************************************)
(* C1.  In every update the delay timer and the sound timer are each       *)
(* decremented by exactly 1 after the instruction batch: a timer holding v *)
(* with 1 <= v <= 255 when the decay runs holds v - 1 afterwards.          *)
(***************************************************************************)
C1_TimersDecrementByOne ==
    [][DecayStep =>
         /\ delay_timer \in 1..255 => delay_timer' = delay_timer - 1
         /\ sound_timer \in 1..255 => sound_timer' = sound_timer - 1]_vars

(***************************************************************************)
(* C2.  In every reachable state the call stack holds at most 16 return    *)
(* addresses.                                                              *)
(***************************************************************************)
C2_StackAtMost16 == Len(stack) <= 16

(***************************************************************************)
(* C3.  A return (00EE) executed with an empty call stack is fatal: the    *)
(* fault is StackUnderflow, the program counter receives no address (it    *)
(* stays right behind the fetched word), nothing else changes, and no step *)
(* is taken after a fault.                                                 *)
(***************************************************************************)
C3_ReturnOnEmptyStackIsFatal ==
    [][/\ fault = NoFault
       /\ (Fetches /\ CurOp = 238 /\ stack = <<>>) =>
             /\ fault' = "StackUnderflow"
             /\ program_counter' = program_counter + 2
             /\ UNCHANGED <<memory, screen, index, stack, registers,
                            delay_timer, sound_timer>>]_vars

C3_Witness == fault = "StackUnderflow" /\ stack = <<>> /\ LastOp = 238

(***************************************************************************)
(* C4.  Call and return are a LIFO round trip: a call 2NNN fetched at a    *)
(* with stack s sets the program counter to NNN and the stack to s with    *)
(* a + 2 pushed; the matching return sets the program counter to a + 2 and *)
(* the stack to s again.                                                   *)
(***************************************************************************)
C4_CallReturnRoundTrip ==
    [][/\ (Fetches /\ NibC(CurOp) = 2) =>
             /\ program_counter' = FieldNNN(CurOp)
             /\ stack' = Append(stack, program_counter + 2)
       /\ (Fetches /\ CurOp = 238 /\ calls # <<>>) =>
             /\ program_counter' = calls[Len(calls)].site + 2
             /\ stack' = calls[Len(calls)].before]_vars

\* back in the outer subroutine of RomNested after the inner one returned
C4_Witness ==
    /\ program_counter = 520
    /\ Len(stack) = 1
    /\ Len(calls) = 1
    /\ read_opcode(program_counter - 2) = 8714

(***************************************************************************)
(* C5.  Every word that is none of the instruction forms (0NNN other than  *)
(* 00E0 and 00EE; 8XYN with N in 8..D or F; EXNN other than EX9E, EXA1;    *)
(* FXNN other than FX07, FX0A, FX15, FX18, FX1E, FX29, FX33, FX55, FX65)   *)
(* is a fatal UnknownOpcode fault when executed and changes nothing.       *)
(***************************************************************************)
Unlisted(opcode) ==
    \/ NibC(opcode) = 0 /\ FieldNNN(opcode) \notin {224, 238}
    \/ NibC(opcode) = 8 /\ NibN(opcode) \in {8, 9, 10, 11, 12, 13, 15}
    \/ NibC(opcode) = 14 /\ FieldNN(opcode) \notin {158, 161}
    \/ NibC(opcode) = 15 /\ FieldNN(opcode) \notin {7, 10, 21, 24, 30, 41, 51, 85, 101}

C5_UnknownOpcodeIsFatal ==
    [][(Fetches /\ Unlisted(CurOp)) =>
          /\ fault' = "UnknownOpcode"
          /\ UNCHANGED <<memory, screen, index, stack, registers, delay_timer,
                         sound_timer>>]_vars

C5_Witness ==
    /\ fault = "UnknownOpcode"
    /\ Unlisted(LastOp)
    /\ NibC(LastOp) = 15

(***************************************************************************)
(* C6.  No instruction reads or writes a cell outside 0x000..0xFFF: a      *)
(* fetch with PC > 0xFFE, and a sprite read, BCD store, register dump or   *)
(* register load that touches I + k > 0xFFF, is a fatal AddressOutOfRange  *)
(* fault; no address wraps and no other cell is written.                   *)
(***************************************************************************)
\* the rows of DXYN that lie inside the display
SpriteRows(opcode) ==
    LET vy == IF NibY(opcode) = 15 THEN 0 ELSE registers[NibY(opcode)]
    IN  Min(HEIGHT - (vy % HEIGHT), NibN(opcode))

\* the highest address the instruction touches through I, -1 for none
HighestTouched(opcode) ==
    CASE NibC(opcode) = 13 /\ SpriteRows(opcode) >= 1 ->
            index + SpriteRows(opcode) - 1
      [] NibC(opcode) = 15 /\ FieldNN(opcode) = 51 -> index + 2
      [] NibC(opcode) = 15 /\ FieldNN(opcode) \in {85, 101} -> index + NibX(opcode)
      [] OTHER -> -1

C6_NoAccessOutsideMemory ==
    [][(ExeStep /\ ~halt) =>
          /\ DOMAIN memory' \subseteq 0..4095
          /\ \A a \in DOMAIN memory' :
                (a \notin DOMAIN memory \/ memory'[a] # memory[a]) =>
                    a \in index..(index + 15)
          /\ program_counter > 4094 =>
                fault' = "AddressOutOfRange" /\ UNCHANGED <<memory, registers>>
          /\ (program_counter <= 4094 /\ HighestTouched(CurOp) > 4095) =>
                fault' = "AddressOutOfRange"]_vars

\* RomStoreEnd: the dump wrote the last two cells and faulted on the third
C6_Witness ==
    /\ fault = "AddressOutOfRange"
    /\ LastOp = 62037
    /\ Mem(4094) = 7
    /\ Mem(4095) = 8

(***************************************************************************)
(* Key events of a batch, as the properties read them.                     *)
(***************************************************************************)
\* event i of the batch is a press of a key of the keypad
IsPress(batch, i) == batch[i].state = Pressed /\ KeypadKeyOf(batch[i].key) # <<>>

\* the batch holds a press (a release) of keypad key k
HasPress(batch, k) ==
    \E i \in 1..Len(batch) : batch[i].state = Pressed /\ KeypadKeyOf(batch[i].key) = <<k>>

HasRelease(batch, k) ==
    \E i \in 1..Len(batch) : batch[i].state = Released /\ KeypadKeyOf(batch[i].key) = <<k>>

AnyPress(batch) == \E i \in 1..Len(batch) : IsPress(batch, i)

\* the keypad key of the last press of a batch that holds one
LastPressKey(batch) ==
    LET i == CHOOSE j \in 1..Len(batch) :
                 IsPress(batch, j) /\ \A l \in (j + 1)..Len(batch) : ~IsPress(batch, l)
    IN  KeypadKeyOf(batch[i].key)[1]

\* the ticks (updates) so far whose batch held a press of k
PressTicks(k) == {t \in 1..Len(history) : HasPress(history[t], k)}

\* the number of the last of them
LastPressTick(k) == CHOOSE t \in PressTicks(k) : \A u \in PressTicks(k) : u <= t

\* the fetched word is EX9E, EXA1, FX0A, FX07
IsSkipKey(opcode) == NibC(opcode) = 14 /\ FieldNN(opcode) = 158
IsSkipNoKey(opcode) == NibC(opcode) = 14 /\ FieldNN(opcode) = 161
IsWaitKey(opcode) == NibC(opcode) = 15 /\ FieldNN(opcode) = 10
IsGetDelay(opcode) == NibC(opcode) = 15 /\ FieldNN(opcode) = 7

(***************************************************************************)
(* C7.  Keypad debounce window: when the last press event of key k came in *)
(* the batch of tick T, the instructions of ticks T..T+3 see is_pressed(k) *)
(* true and those of every tick from T+4 on see it false (EX9E skips       *)
(* exactly in the window, EXA1 exactly outside); releases of k and events  *)
(* of other keys do not matter.                                            *)
(***************************************************************************)
InWindow(k) == Len(history) - LastPressTick(k) <= 3

C7_DebounceWindow ==
    [][ExeStep =>
         /\ \A k \in 0..15 :
               PressTicks(k) # {} => (is_key_pressed(k) <=> InWindow(k))
         /\ (Fetches /\ IsSkipKey(CurOp) /\ VX(NibX(CurOp)) < 16
                     /\ PressTicks(VX(NibX(CurOp))) # {}) =>
               program_counter' =
                   IF InWindow(VX(NibX(CurOp))) THEN program_counter + 4
                   ELSE program_counter + 2
         /\ (Fetches /\ IsSkipNoKey(CurOp) /\ VX(NibX(CurOp)) < 16
                     /\ PressTicks(VX(NibX(CurOp))) # {}) =>
               program_counter' =
                   IF InWindow(VX(NibX(CurOp))) THEN program_counter + 2
                   ELSE program_counter + 4]_vars

\* tick T + 4 after a press in tick T = 1: the key was seen pressed (V1 = 1)
\* and EX9E no longer skips
C7_Witness ==
    /\ Len(history) = 5
    /\ PressTicks(1) = {1}
    /\ \E t \in 2..5 : HasRelease(history[t], 1)
    /\ registers[1] = 1
    /\ program_counter = 522

(***************************************************************************)
(* C8.  Key-wait blocks: an FX0A executed in a tick whose batch holds no   *)
(* press event (no press ever, or only a stale pending record) leaves the  *)
(* program counter on the instruction and every register unchanged.        *)
(***************************************************************************)
C8_KeyWaitBlocks ==
    [][(Fetches /\ IsWaitKey(CurOp) /\ ~AnyPress(host_keys)) =>
          /\ program_counter' = program_counter
          /\ registers' = registers]_vars

\* blocked on the second wait by a stale record, in a tick with a release
C8_Witness ==
    /\ phase = "exe"
    /\ n_exe >= 1
    /\ HasRelease(host_keys, 1)
    /\ ~AnyPress(host_keys)
    /\ last_pressed_frames_ago # <<>>
    /\ last_pressed_frames_ago[2] >= 1
    /\ program_counter = 514
    /\ IsWaitKey(CurOp)
    /\ registers[3] = 4

(***************************************************************************)
(* C9.  Key-wait completes in the tick of the press: an FX0A at a executed *)
(* in a tick whose batch holds a press of a keypad key sets VX to the key  *)
(* of the last press event of the batch and leaves PC = a + 2; releases in *)
(* the batch do not change the key.                                        *)
(***************************************************************************)
C9_KeyWaitCompletes ==
    [][(Fetches /\ IsWaitKey(CurOp) /\ AnyPress(host_keys)) =>
          /\ program_counter' = program_counter + 2
          /\ registers' = [registers EXCEPT ![NibX(CurOp)] = LastPressKey(host_keys)]]_vars

C9_Witness ==
    /\ phase = "exe"
    /\ AnyPress(host_keys)
    /\ HasRelease(host_keys, 4)
    /\ program_counter = 514
    /\ registers[3] = 4
    /\ registers[5] = 0

(***************************************************************************)
(* C10.  Ordering inside one update: the ages of all keys are incremented  *)
(* and then the events of the batch are applied, before any instruction;   *)
(* then the IPF instructions run one after the other; only after the last  *)
(* one are the timers decayed and the pending-key age incremented.  So     *)
(* FX07 reads a timer not yet decayed for the tick, and a key test sees a  *)
(* press of the tick's batch with age 0.                                   *)
(***************************************************************************)
\* the age of a key after the first part of update, from the age before it
AgeAfter(age, reset) == IF reset THEN 0 ELSE Min(age + 1, 60)

\* the delay timer seen by the instructions of tick t of RomKeypad, which
\* sets it to 5 in its second instruction: it has decayed t - 1 times
DelaySeen(t) == 5 - (t - 1)

C10_TickOrdering ==
    [][/\ KeysStep =>
             /\ \A k \in 0..15 :
                   /\ keys'[k].pressed_frames_ago =
                         AgeAfter(keys[k].pressed_frames_ago, HasPress(host_keys', k))
                   /\ keys'[k].released_frames_ago =
                         AgeAfter(keys[k].released_frames_ago, HasRelease(host_keys', k))
             /\ n_exe' = 0
             /\ UNCHANGED <<memory, screen, program_counter, index, stack,
                            registers, delay_timer, sound_timer>>
       /\ ExeStep =>
             /\ UNCHANGED <<keys, last_pressed_frames_ago, phase>>
             /\ \A k \in 0..15 : HasPress(host_keys, k) => keys[k].pressed_frames_ago = 0
             /\ AnyPress(host_keys) => last_pressed_frames_ago[2] = 0
             /\ (Len(history) <= 6 /\ n_exe >= 2) => delay_timer = DelaySeen(Len(history))
             /\ (Fetches /\ IsGetDelay(CurOp)) =>
                   registers'[NibX(CurOp)] = delay_timer
             /\ (Fetches /\ IsSkipKey(CurOp) /\ HasPress(host_keys, 1)) =>
                   program_counter' = program_counter + 4
       /\ DecayStep =>
             /\ n_exe = IPF
             /\ UNCHANGED <<memory, screen, program_counter, index, stack,
                            registers, keys>>
             /\ last_pressed_frames_ago # <<>> =>
                   last_pressed_frames_ago'[2] = Min(last_pressed_frames_ago[2] + 1, 60)]_vars

\* in tick 3 the timer read gave 3 and the key pressed in this tick's batch
\* was seen pressed, at age 0
C10_Witness ==
    /\ phase = "exe"
    /\ Len(history) = 3
    /\ HasPress(host_keys, 1)
    /\ keys[1].pressed_frames_ago = 0
    /\ registers[3] = 3
    /\ registers[1] = 1
    /\ program_counter = 526

(***************************************************************************)
(* The loop specification: the program 00E0 6005 7005 1200, run for ever   *)
(* by the event loop (every update and every instruction of it is taken).  *)
(***************************************************************************)
RomLoop == RomOfWords(<<224, 24581, 28677, 4608>>)

InitLoop == InitWith(RomLoop)

SpecLoop ==
    /\ InitLoop
    /\ [][Next]_vars
    /\ WF_vars(UpdateBegin(<<>>, MaxTicks))
    /\ WF_vars(Exe)
    /\ WF_vars(UpdateEnd)

(***************************************************************************)
(* C11.  End-to-end loop: with 00E0 6005 7005 1200 at 0x200 the            *)
(* interpreter never faults, the program counter only takes the values     *)
(* 0x200, 0x202, 0x204, 0x206, V0 = 10 whenever the program counter is     *)
(* back at 0x200 after the first pass, and 0x200 recurs again and again.   *)
(***************************************************************************)
\* at least one instruction has been executed
Started == Len(history) > 1 \/ n_exe > 0

C11_LoopForever ==
    /\ [](fault = NoFault)
    /\ [](program_counter \in {512, 514, 516, 518})
    /\ []((program_counter = 512 /\ Started) => registers[0] = 10)
    /\ []<>(program_counter = 512)
    /\ [](program_counter = 514 => <>(program_counter = 512 /\ registers[0] = 10))

\* back at 0x200 in the second update
C11_Witness ==
    /\ program_counter = 512
    /\ registers[0] = 10
    /\ Len(history) = 2
    /\ n_exe = 4

(***************************************************************************)
(* The drawing specification.  RomDraw(vx, vy, n) draws glyph 0 three      *)
(* times at (V0, V1) = (vx, vy), then glyph 1 twice over it, and loops.    *)
(* RomDrawAny draws glyph 0 once at random coordinates; RomDrawVF uses     *)
(* register F as a coordinate.  The last two run on into zeroed memory.    *)
(***************************************************************************)
\* A000 60vx 61vy D01n D01n D01n A005 D01n D01n 1212
RomDraw(vx, vy, n) ==
    RomOfWords(<<40960, 24576 + vx, 24832 + vy, 53264 + n, 53264 + n, 53264 + n,
                 40965, 53264 + n, 53264 + n, 4626>>)

\* A000 C0FF C1FF D015
RomDrawAny == RomOfWords(<<40960, 49407, 49663, 53269>>)

\* 6F0A 600C 610D A000 DF15 D0F5
RomDrawVF == RomOfWords(<<28426, 24588, 24845, 40960, 57109, 53493>>)

DrawColumns == {0, 62, 255}
DrawRows == {0, 30, 40}
DrawHeights == {0, 1, 5, 15}

DrawRoms ==
    {RomDraw(vx, vy, n) : vx \in DrawColumns, vy \in DrawRows, n \in DrawHeights}
        \cup {RomDrawAny, RomDrawVF}

InitDraw == \E bytes \in DrawRoms : InitWith(bytes)

SpecDraw == InitDraw /\ [][Next]_vars

(***************************************************************************)
(* Sprites, as the properties read them.                                   *)
(***************************************************************************)
\* the display cells a sprite of n rows covers from origin (ox, oy)
Rect(ox, oy, n) == (oy..Min(oy + n - 1, HEIGHT - 1)) \X (ox..Min(ox + 7, WIDTH - 1))

\* the cells of it whose sprite bit (most significant bit first, one byte a
\* row from address base) is set
SpriteAt(base, ox, oy, n) ==
    {c \in Rect(ox, oy, n) : (Mem(base + c[1] - oy) \div Pow2(7 - (c[2] - ox))) % 2 = 1}

Toggled(cells, sprite) == {c \in cells \cup sprite : ~(c \in cells /\ c \in sprite)}

\* the step is a DXYN that reads its sprite rows inside the memory
IsDraw(opcode) == NibC(opcode) = 13

DrawStep == Fetches /\ IsDraw(CurOp) /\ index + 15 < MEMORY_SIZE

\* the coordinate registers as DXYN reads them, after VF is cleared
DrawVX == IF NibX(CurOp) = 15 THEN 0 ELSE registers[NibX(CurOp)]
DrawVY == IF NibY(CurOp) = 15 THEN 0 ELSE registers[NibY(CurOp)]

\* the program is one of RomDraw
IsRomDraw == read_opcode(530) = 4626

(***************************************************************************)
(* C12.  Sprite drawing is an XOR with per-bit collision: drawing the same *)
(* sprite twice leaves the display as it was before the first draw; on an  *)
(* empty area the first draw of a sprite with a visible set bit gives      *)
(* VF = 0, the second one clears every cell and gives VF = 1, the third    *)
(* one sets the cells again with VF = 0.                                   *)
(***************************************************************************)
C12_DrawTwiceRestores ==
    (IsRomDraw /\ fault = NoFault /\ program_counter >= 520) =>
        LET n == NibN(read_opcode(518))
            glyph0 == SpriteAt(0, registers[0] % WIDTH, registers[1] % HEIGHT, n)
            glyph1 == SpriteAt(5, registers[0] % WIDTH, registers[1] % HEIGHT, n)
        IN  /\ program_counter = 520 => screen = glyph0 /\ registers[15] = 0
            /\ program_counter = 522 =>
                  screen = {} /\ registers[15] = (IF glyph0 # {} THEN 1 ELSE 0)
            /\ program_counter \in {524, 526} => screen = glyph0 /\ registers[15] = 0
            /\ program_counter = 528 =>
                  /\ screen = Toggled(glyph0, glyph1)
                  /\ registers[15] = (IF glyph0 \cap glyph1 # {} THEN 1 ELSE 0)
            /\ program_counter = 530 =>
                  /\ screen = glyph0
                  /\ registers[15] = (IF glyph1 \ glyph0 # {} THEN 1 ELSE 0)

\* glyph 1 drawn twice over glyph 0 at the right and bottom edges: glyph 0 is
\* back, and the second draw cleared a cell
C12_Witness ==
    /\ IsRomDraw
    /\ program_counter = 530
    /\ registers[0] = 62
    /\ registers[1] = 30
    /\ registers[15] = 1
    /\ screen = {<<30, 62>>, <<30, 63>>, <<31, 62>>}

(***************************************************************************)
(* C13, as claimed.  DXYN places the top-left bit of the sprite at column  *)
(* VX mod 64 and row VY mod 64 (a row origin of 32 or more clips every     *)
(* row), and VF is cleared before any cell is toggled.                     *)
(***************************************************************************)
C13_OriginRowMod64 ==
    [][DrawStep =>
         LET sprite == SpriteAt(index, DrawVX % 64, DrawVY % 64, NibN(CurOp))
         IN  /\ screen' = Toggled(screen, sprite)
             /\ registers'[15] = (IF sprite \cap screen # {} THEN 1 ELSE 0)]_vars

(***************************************************************************)
(* C13, amended.  DXYN places the top-left bit of the sprite at column     *)
(* VX mod 64 and row VY mod 32, so the origin is always inside the         *)
(* display; VF is cleared before the coordinates are read and before any   *)
(* cell is toggled.                                                        *)
(***************************************************************************)
C13_OriginRowMod32 ==
    [][DrawStep =>
         LET sprite == SpriteAt(index, DrawVX % 64, DrawVY % 32, NibN(CurOp))
         IN  /\ screen' = Toggled(screen, sprite)
             /\ registers'[15] = (IF sprite \cap screen # {} THEN 1 ELSE 0)]_vars

\* V0 = 70 and V1 = 40: the top-left bit of glyph 0 is at row 8, column 6
C13_Witness ==
    /\ fault = NoFault
    /\ IsDraw(LastOp)
    /\ registers[0] = 70
    /\ registers[1] = 40
    /\ screen = {<<8, 6>>, <<8, 7>>, <<8, 8>>, <<8, 9>>, <<9, 6>>, <<9, 9>>,
                 <<10, 6>>, <<10, 9>>, <<11, 6>>, <<11, 9>>,
                 <<12, 6>>, <<12, 7>>, <<12, 8>>, <<12, 9>>}

(***************************************************************************)
(* C14.  DXYN clips and never wraps: with origin (ox, oy) and height n     *)
(* only the cells of columns ox..min(ox+7, 63) and rows oy..min(oy+n-1,    *)
(* 31) can change; rows past row 31 and bits past column 63 are dropped,   *)
(* every other cell is unchanged, and n = 0 changes no cell.               *)
(***************************************************************************)
C14_DrawClips ==
    [][(Fetches /\ IsDraw(CurOp)) =>
         /\ Toggled(screen, screen') \subseteq
                Rect(DrawVX % WIDTH, DrawVY % HEIGHT, NibN(CurOp))
         /\ screen' \subseteq (0..31) \X (0..63)
         /\ NibN(CurOp) = 0 => screen' = screen]_vars

\* glyph 0 drawn with 5 rows at column 62, row 30: two columns and two rows
\* are left
C14_Witness ==
    /\ IsRomDraw
    /\ program_counter = 520
    /\ NibN(LastOp) = 5
    /\ registers[0] = 62
    /\ registers[1] = 30
    /\ screen = {<<30, 62>>, <<30, 63>>, <<31, 62>>}

(***************************************************************************)
(* The addition specification.  RomAddAny adds two random registers,       *)
(* RomAddRegs runs 8XY4 on every pair of register indices, RomAddImm adds  *)
(* an immediate to a random register while VF holds 7.  All but RomLoop    *)
(* run on into zeroed memory.                                              *)
(***************************************************************************)
\* C0FF C1FF 8014
RomAddAny == RomOfWords(<<49407, 49663, 32788>>)

\* 6Xaa 6Ybb 8XY4
RomAddRegs(x, y, a, b) ==
    RomOfWords(<<24576 + 256 * x + a, 24576 + 256 * y + b, 32772 + 256 * x + 16 * y>>)

\* 6F07 CXFF 7Xnn
RomAddImm(x, nn) == RomOfWords(<<28423, 49407 + 256 * x, 28672 + 256 * x + nn>>)

AddOperands == {<<250, 10>>, <<10, 20>>, <<255, 255>>}
AddImmediates == {0, 1, 128, 255}

AddRoms ==
    {RomAddRegs(x, y, ab[1], ab[2]) : x \in 0..15, y \in 0..15, ab \in AddOperands}
        \cup {RomAddImm(x, nn) : x \in {0, 14}, nn \in AddImmediates}
        \cup {RomAddAny, RomLoop}

InitAdd == \E bytes \in AddRoms : InitWith(bytes)

SpecAdd == InitAdd /\ [][Next]_vars

(***************************************************************************)
(* The subtraction specification: 8XY5 and 8XY7 on two random registers    *)
(* and on every pair of register indices.                                  *)
(***************************************************************************)
\* C0FF C1FF 8015
RomSubAny == RomOfWords(<<49407, 49663, 32789>>)

\* C0FF C1FF 8017
RomSubNAny == RomOfWords(<<49407, 49663, 32791>>)

\* 6Xaa 6Ybb 8XYn
RomSubRegs(x, y, a, b, n) ==
    RomOfWords(<<24576 + 256 * x + a, 24576 + 256 * y + b,
                 32768 + 256 * x + 16 * y + n>>)

SubOperands == {<<5, 10>>, <<10, 5>>, <<7, 7>>}

SubRoms ==
    {RomSubRegs(x, y, ab[1], ab[2], n) :
        x \in 0..15, y \in 0..15, ab \in SubOperands, n \in {5, 7}}
        \cup {RomSubAny, RomSubNAny, RomLoop}

InitSub == \E bytes \in SubRoms : InitWith(bytes)

SpecSub == InitSub /\ [][Next]_vars

\* the step is an 8XYn
IsAlu(opcode, n) == NibC(opcode) = 8 /\ NibN(opcode) = n

\* the registers other than VX and VF keep their values in the step
OthersKept(x) == \A r \in 0..15 : r \notin {x, 15} => registers'[r] = registers[r]

(***************************************************************************)
(* C15.  Add with carry (8XY4): for all register indices X, Y and all      *)
(* values of VX, VY in 0..255, after the instruction VF = 1 if             *)
(* VX + VY > 255 and VF = 0 otherwise, for X other than F register VX      *)
(* holds (VX + VY) mod 256, and no register other than VX and VF changes.  *)
(***************************************************************************)
C15_AddWithCarry ==
    [][(Fetches /\ IsAlu(CurOp, 4)) =>
         LET x == NibX(CurOp)
             sum == registers[x] + registers[NibY(CurOp)]
         IN  /\ fault' = NoFault
             /\ registers'[15] = (IF sum > 255 THEN 1 ELSE 0)
             /\ x # 15 => registers'[x] = sum % 256
             /\ OthersKept(x)]_vars

\* 250 + 10 = 4 with a carry
C15_Witness ==
    /\ fault = NoFault
    /\ IsAlu(LastOp, 4)
    /\ NibX(LastOp) = 0
    /\ NibY(LastOp) = 1
    /\ registers[0] = 4
    /\ registers[1] = 10
    /\ registers[15] = 1

(***************************************************************************)
(* C16.  Subtraction uses the inverted borrow flag: 8XY5 sets VX to        *)
(* (VX - VY) mod 256 and VF to 1 exactly when VX >= VY, 8XY7 sets VX to    *)
(* (VY - VX) mod 256 and VF to 1 exactly when VY >= VX; VF is 0 exactly    *)
(* when a borrow occurred, and for X = F the register ends holding the     *)
(* flag.                                                                   *)
(***************************************************************************)
C16_SubInvertedBorrow ==
    [][(Fetches /\ (IsAlu(CurOp, 5) \/ IsAlu(CurOp, 7))) =>
         LET x == NibX(CurOp)
             vx == registers[x]
             vy == registers[NibY(CurOp)]
             minuend == IF IsAlu(CurOp, 5) THEN vx ELSE vy
             subtrahend == IF IsAlu(CurOp, 5) THEN vy ELSE vx
         IN  /\ fault' = NoFault
             /\ registers'[15] = (IF minuend >= subtrahend THEN 1 ELSE 0)
             /\ x # 15 => registers'[x] = (256 + minuend - subtrahend) % 256
             /\ OthersKept(x)]_vars

\* 7 - 7 = 0 without a borrow
C16_Witness ==
    /\ fault = NoFault
    /\ IsAlu(LastOp, 5)
    /\ NibX(LastOp) = 0
    /\ NibY(LastOp) = 1
    /\ registers[0] = 0
    /\ registers[1] = 7
    /\ registers[15] = 1

(***************************************************************************)
(* C17.  Add immediate (7XNN) wraps: for every VX and NN in 0..255 the     *)
(* instruction sets VX to (VX + NN) mod 256, never faults when the sum     *)
(* exceeds 255, and leaves VF and every other register unchanged.          *)
(***************************************************************************)
C17_AddImmediateWraps ==
    [][(Fetches /\ NibC(CurOp) = 7) =>
         /\ fault' = NoFault
         /\ registers' = [registers EXCEPT ![NibX(CurOp)] =
                              (registers[NibX(CurOp)] + FieldNN(CurOp)) % 256]]_vars

(***************************************************************************)
(* The register dump specification.  RomDumpLoad(x) sets register r to     *)
(* 160 + r, stores V0..Vx at 0x300, clears all registers by loading them   *)
(* from the zeroed cells at 0x400, loads V0..Vx back from 0x300 and loops. *)
(***************************************************************************)
\* 60A0 61A1 .. 6FAF A300 Fx55 A400 FF65 A300 Fx65 122C
RomDumpLoad(x) ==
    RomOfWords([r \in 1..16 |-> 24576 + 256 * (r - 1) + 160 + (r - 1)]
                   \o <<41728, 61525 + 256 * x, 41984, 65381, 41728,
                        61541 + 256 * x, 4652>>)

InitRegs == \E x \in 0..15 : InitWith(RomDumpLoad(x))

SpecRegs == InitRegs /\ [][Next]_vars

IsStoreRegs(opcode) == NibC(opcode) = 15 /\ FieldNN(opcode) = 85
IsLoadRegs(opcode) == NibC(opcode) = 15 /\ FieldNN(opcode) = 101

\* I after FX55 or FX65 on V0..Vx
IndexAfter(x) == IF MODERN_STR_LD_BEHAVIOUR THEN index ELSE index + x + 1

(***************************************************************************)
(* C18.  Register dump and load: FX55 copies V0..VX in order into          *)
(* memory[I..I+X] and FX65 copies memory[I..I+X] into V0..VX; I ends at    *)
(* its old value + X + 1 (MODERN_STR_LD_BEHAVIOUR is off, with it on I is  *)
(* unchanged); registers above VX and memory cells outside I..I+X are      *)
(* unchanged, so FX55 followed by restoring I and FX65 gives back the same *)
(* V0..VX.                                                                 *)
(***************************************************************************)
C18_DumpLoad ==
    /\ [][(Fetches /\ IsStoreRegs(CurOp) /\ index + NibX(CurOp) < MEMORY_SIZE) =>
            LET x == NibX(CurOp)
            IN  /\ \A a \in 0..(MEMORY_SIZE - 1) :
                      Mem(a)' = IF a \in index..(index + x) THEN registers[a - index]
                                ELSE Mem(a)
                /\ registers' = registers
                /\ index' = IndexAfter(x)
                /\ fault' = NoFault]_vars
    /\ [][(Fetches /\ IsLoadRegs(CurOp) /\ index + NibX(CurOp) < MEMORY_SIZE) =>
            LET x == NibX(CurOp)
            IN  /\ registers' = [r \in 0..15 |->
                                    IF r <= x THEN Mem(index + r) ELSE registers[r]]
                /\ memory' = memory
                /\ index' = IndexAfter(x)
                /\ fault' = NoFault]_vars
    /\ []((read_opcode(556) = 4652 /\ program_counter = 556) =>
            LET x == NibX(read_opcode(554))
            IN  registers = [r \in 0..15 |-> IF r <= x THEN 160 + r ELSE 0])

\* V0..V7 are back from the dump at 0x300..0x307 and I is 0x308
C18_Witness ==
    /\ read_opcode(556) = 4652
    /\ program_counter = 556
    /\ NibX(LastOp) = 7
    /\ index = 776
    /\ registers[7] = 167
    /\ registers[8] = 0
    /\ Mem(775) = 167
    /\ Mem(776) = 0

(***************************************************************************)
(* C19.  A timer whose value is 0 when the decay step of the tick runs is  *)
(* 59 after the tick: the decrement is modulo 60, so a timer that reached  *)
(* 0 and is not set by any instruction does not stay at 0 but wraps to 59  *)
(* and counts down again.                                                  *)
(***************************************************************************)
C19_TimerWrapsTo59 ==
    [][DecayStep =>
         /\ delay_timer = 0 => delay_timer' = 59
         /\ sound_timer = 0 => sound_timer' = 59
         /\ delay_timer = 59 => delay_timer' = 58
         /\ sound_timer = 59 => sound_timer' = 58]_vars

\* two ticks of a program that never sets the timers: 0, 59, 58
C19_Witness ==
    /\ phase = "idle"
    /\ Len(history) = 2
    /\ delay_timer = 58
    /\ sound_timer = 58

(***************************************************************************)
(* The key-count specification: a key wait followed by an increment of V4, *)
(* in a loop, so that V4 counts the key waits that completed.              *)
(***************************************************************************)
\* F30A 7401 1200
RomKeyCount == RomOfWords(<<62218, 29697, 4608>>)

InitKeyCount == InitWith(RomKeyCount)

SpecKeyCount == InitKeyCount /\ [][NextKeyWait]_vars

\* the press events of keypad keys supplied so far
PressEvents ==
    {e \in (1..Len(history)) \X (1..4) :
        e[2] <= Len(history[e[1]]) /\ IsPress(history[e[1]], e[2])}

RomShrAny == RomOfWords(<<24661, 49663, 32790>>)

\* 6055 C1FF 801E
RomShlAny == RomOfWords(<<24661, 49663, 32798>>)

\* 6Xaa 6Ybb 8XYn
RomShiftRegs(x, y, a, b, n) ==
    RomOfWords(<<24576 + 256 * x + a, 24576 + 256 * y + b,
                 32768 + 256 * x + 16 * y + n>>)

ShiftOperands == {<<2, 129>>, <<129, 2>>, <<255, 0>>}

ShiftRoms ==
    {RomShiftRegs(x, y, ab[1], ab[2], n) :
        x \in 0..15, y \in 0..15, ab \in ShiftOperands, n \in {6, 14}}
        \cup {RomShrAny, RomShlAny, RomLoop}

InitShift == \E bytes \in ShiftRoms : InitWith(bytes)

SpecShift == InitShift /\ [][Next]_vars

(***************************************************************************)
(* C21.  Shifts (8XY6, 8XYE): the operand is VY (MODERN_SHIFT_BEHAVIOUR is *)
(* off; with it on the operand is VX): VX becomes the operand shifted      *)
(* right by one, resp. left by one modulo 256, VF becomes the bit shifted  *)
(* out, taken before the shift (bit 0, resp. bit 7), no other register     *)
(* changes (VY is unchanged when Y is neither X nor F), and for X = F the  *)
(* register ends holding the shifted-out bit.                              *)
(***************************************************************************)
C21_Shifts ==
    [][(Fetches /\ (IsAlu(CurOp, 6) \/ IsAlu(CurOp, 14))) =>
         LET x == NibX(CurOp)
             operand == IF MODERN_SHIFT_BEHAVIOUR THEN registers[x]
                        ELSE registers[NibY(CurOp)]
             right == IsAlu(CurOp, 6)
         IN  /\ fault' = NoFault
             /\ registers'[15] = (IF right THEN operand % 2 ELSE operand \div 128)
             /\ x # 15 => registers'[x] =
                   (IF right THEN operand \div 2 ELSE (2 * operand) % 256)
             /\ OthersKept(x)]_vars

\* V1 = 129 shifted right into V0, which held 0x55: 64 and bit 0 out
C21_Witness ==
    /\ fault = NoFault
    /\ IsAlu(LastOp, 6)
    /\ read_opcode(512) = 24661
    /\ registers[0] = 64
    /\ registers[1] = 129
    /\ registers[15] = 1

(***************************************************************************)
(* The key-age specification: a program that only jumps to itself, key     *)
(* events in the first AgeEventTicks ticks and empty batches afterwards,   *)
(* long enough for an age to climb from 0 to the clamp.                    *)
(***************************************************************************)
\* 1200
RomIdle == RomOfWords(<<4608>>)

AgeBatches ==
    { <<>>,
      <<Ev("1", Pressed), Ev("2", Released)>>,
      <<Ev("1", Released), Ev("q", Pressed)>> }

InitAges == InitWith(RomIdle)

NextAges ==
    \/ \E batch \in AgeBatches :
          /\ Len(history) < AgeEventTicks
          /\ UpdateBegin(batch, MaxAgeTicks)
    \/ /\ Len(history) >= AgeEventTicks
       /\ UpdateBegin(<<>>, MaxAgeTicks)
    \/ Exe
    \/ UpdateEnd

SpecAges == InitAges /\ [][NextAges]_vars

Ages == 0..60

(***************************************************************************)
(* C22.  Keypad ages are clamped: in every reachable state each key's      *)
(* press age and release age are in 0..60 and the age of the pending-key   *)
(* record, once the record exists, is in 0..60; in an update a press or    *)
(* release event resets only the corresponding age of that key to 0, and   *)
(* every other age grows by one up to 60.                                  *)
(***************************************************************************)
C22_AgesClamped ==
    /\ [](/\ \A k \in 0..15 : /\ keys[k].pressed_frames_ago \in Ages
                              /\ keys[k].released_frames_ago \in Ages
          /\ last_pressed_frames_ago # <<>> => last_pressed_frames_ago[2] \in Ages)
    /\ [][KeysStep =>
            \A k \in 0..15 :
                /\ keys'[k].pressed_frames_ago =
                      IF HasPress(host_keys', k) THEN 0
                      ELSE IF keys[k].pressed_frames_ago = 60 THEN 60
                      ELSE keys[k].pressed_frames_ago + 1
                /\ keys'[k].released_frames_ago =
                      IF HasRelease(host_keys', k) THEN 0
                      ELSE IF keys[k].released_frames_ago = 60 THEN 60
                      ELSE keys[k].released_frames_ago + 1]_vars
    /\ [][DecayStep =>
            (last_pressed_frames_ago # <<>> =>
                /\ last_pressed_frames_ago'[1] = last_pressed_frames_ago[1]
                /\ last_pressed_frames_ago'[2] =
                      IF last_pressed_frames_ago[2] = 60 THEN 60
                      ELSE last_pressed_frames_ago[2] + 1)]_vars

\* key 1 was pressed in the first tick only: 61 ticks later its press age and
\* the age of the pending record have stopped at 60
C22_Witness ==
    /\ phase = "idle"
    /\ Len(history) = 62
    /\ HasPress(history[1], 1)
    /\ history[2] = <<>>
    /\ keys[1].pressed_frames_ago = 60
    /\ keys[2].released_frames_ago = 60
    /\ last_pressed_frames_ago = <<1, 60>>

(***************************************************************************)
(* The key-test specification: EX9E and EXA1 on a random V0 and on every   *)
(* register index, in a tick that may hold presses of keys 1 and 4; the    *)
(* keypad program of SpecKeypad keeps running over the ticks.              *)
(***************************************************************************)
\* C0FF E09E
RomSkipKeyAny == RomOfWords(<<49407, 57502>>)

\* C0FF E0A1
RomSkipNoKeyAny == RomOfWords(<<49407, 57505>>)

\* 6Xvv EX9E EXA1
RomSkipRegs(x, v) ==
    RomOfWords(<<24576 + 256 * x + v, 57502 + 256 * x, 57505 + 256 * x>>)

KeyTestValues == {1, 4, 15, 16, 17, 255}

KeyTestRoms ==
    {RomSkipRegs(x, v) : x \in 0..15, v \in KeyTestValues}
        \cup {RomSkipKeyAny, RomSkipNoKeyAny, RomKeypad}

KeyTestBatches == { <<>>, <<Ev("1", Pressed), Ev("q", Pressed), Ev("1", Released)>> }

InitKeyTest == \E bytes \in KeyTestRoms : InitWith(bytes)

NextKeyTest ==
    \/ \E batch \in KeyTestBatches : UpdateBegin(batch, MaxTicks)
    \/ Exe
    \/ UpdateEnd

SpecKeyTest == InitKeyTest /\ [][NextKeyTest]_vars

(***************************************************************************)
(* C23.  EX9E and EXA1 index the keypad by the whole value of VX: for VX   *)
(* in 0..15 they skip (PC += 2 after the fetch) exactly when key VX is     *)
(* pressed (EX9E) or is not pressed (EXA1) and change nothing else; for VX *)
(* in 16..255 the instruction is a fatal fault, never 'key not pressed'    *)
(* and never key VX mod 16, and no step is taken after a fault.            *)
(***************************************************************************)
C23_KeyTestUnmasked ==
    [][/\ fault = NoFault
       /\ (Fetches /\ (IsSkipKey(CurOp) \/ IsSkipNoKey(CurOp))) =>
            LET v == registers[NibX(CurOp)]
            IN  IF v <= 15
                THEN /\ fault' = NoFault
                     /\ program_counter' =
                           IF (keys[v].pressed_frames_ago <= 3) = IsSkipKey(CurOp)
                           THEN program_counter + 4 ELSE program_counter + 2
                     /\ UNCHANGED <<memory, screen, index, stack, delay_timer,
                                    sound_timer, registers, halt, keys,
                                    last_pressed_frames_ago>>
                ELSE fault' = "KeyOutOfRange"]_vars

\* EX9E with V0 = 17 while key 1 is pressed: a fault, not a skip
C23_Witness ==
    /\ fault = "KeyOutOfRange"
    /\ IsSkipKey(LastOp)
    /\ NibX(LastOp) = 0
    /\ registers[0] = 17
    /\ keys[1].pressed_frames_ago = 0

====
